---- MODULE Spec2Model ----
(***************************************************************************)
(* The session-scoped sandbox execution pool of nekro-agent:               *)
(*   AipyappBridge          services/aipyapp_executor/bridge.py            *)
(*   AipyappTaskManager     services/aipyapp_executor/task_manager.py      *)
(*   AipyappSandboxExecutor services/aipyapp_executor/sandbox_executor.py  *)
(*   execute_python_workflow plugins/builtin/aipyapp_orchestrator.py       *)
(*                                                                         *)
(* Python dicts that the code iterates are sequences in insertion order;   *)
(* result and error dicts are functions over their string keys; None is    *)
(* the string "None".                                                      *)
(***************************************************************************)
EXTENDS Integers, Sequences, FiniteSets, TLC

\* ---------------------------------------------------------------- bounds
\* max_sessions is drawn from 0..MaxCap
MaxCap == 2
\* the session_timeout the pool is constructed with, in clock units
IdleTimeout == 1
\* the clock (time.time()) runs over 0..MaxTime
MaxTime == 2

\* session ids handed to the pool by its callers
PoolKeys == {"s0", "s1", "s2"}
\* the config argument of create_session: None or a non-empty dict
Configs == {"None", "{timeout:600}"}
\* the timeout the executor is constructed with, in clock units
TaskTimeout == 1
\* the most tasks a caller counts on one session record
MaxTasks == 2
\* the longest instruction list given to execute_python_workflow
MaxSteps == 3
\* the threads that call create_session on one pool
ThreadIds == {"t1", "t2"}
\* the execute_task calls of a run of the executor, made in this order
CallIds == {"c1", "c2"}
Before(b, c) == b = "c1" /\ c = "c2"

VARIABLES
    max_sessions,     \* AipyappTaskManager.max_sessions
    session_timeout,  \* AipyappTaskManager.session_timeout
    sessions,         \* AipyappTaskManager._sessions, in insertion order
    now,              \* what time.time() returns
    last,             \* the last call on the pool: its name, argument and result
    timeout,          \* AipyappSandboxExecutor.timeout
    task_managers,    \* AipyappSandboxExecutor._task_managers: session id -> TaskManager
    next_handle,      \* the identity of the next TaskManager object constructed
    calls,            \* the execute_task calls: where each is and what it holds
    threads,          \* the threads calling create_session: where each is
    wf,               \* the execute_python_workflow call: where it is and its locals
    bridge            \* the last AipyappBridge call: its input and what it returned

poolVars == <<max_sessions, session_timeout, sessions, last>>
execVars == <<timeout, task_managers, next_handle, calls>>

\* ------------------------------------------------ AipyappTaskManager
\* self.workdir
PoolBase == "base"

\* `session_id in self._sessions`
HasKey(s, id) == \E i \in 1..Len(s) : s[i].id = id

\* the ids of a dict, as a set
Keys(s) == {s[i].id : i \in 1..Len(s)}

\* self._sessions[id]
Lookup(s, id) == s[CHOOSE i \in 1..Len(s) : s[i].id = id]

\* `config or {}`
ConfigOrEmpty(config) == IF config \in {"None", "{}"} THEN "{}" ELSE config

\* the dict create_session stores; created_at and last_accessed are two
\* reads of the clock
NewSession(id, config, t1, t2) ==
    [id |-> id,
     workdir |-> PoolBase \o "/" \o id,
     config |-> ConfigOrEmpty(config),
     task_manager |-> "None",
     created_at |-> t1,
     last_accessed |-> t2,
     task_count |-> 0]

\* a pop that removes nothing
Pop_Nothing(s, id) == s

\* self._sessions.pop(session_id, None): the other entries keep their order
Pop(s, id) == SelectSeq(s, LAMBDA r : r.id # id)

\* a pool that evicts by age (created_at) instead of by last access
OldestIndex_ByCreation(s) ==
    CHOOSE i \in 1..Len(s) :
        /\ \A j \in 1..Len(s) : s[i].created_at <= s[j].created_at
        /\ \A j \in 1..(i-1) : s[i].created_at < s[j].created_at

\* min(self._sessions.keys(), key=last_accessed): the first minimal entry in
\* iteration order
OldestIndex(s) ==
    CHOOSE i \in 1..Len(s) :
        /\ \A j \in 1..Len(s) : s[i].last_accessed <= s[j].last_accessed
        /\ \A j \in 1..(i-1) : s[i].last_accessed < s[j].last_accessed

\* _cleanup_oldest_session
CleanupOldest(s) == IF Len(s) = 0 THEN s ELSE Pop(s, s[OldestIndex(s)].id)

\* the capacity test of create_session and the eviction it triggers
MakeRoom(s, cap) == IF Len(s) >= cap THEN CleanupOldest(s) ELSE s

\* the session_id of the "Cleaned up oldest session to make room" log line
\* of a create_session call, "None" when the call logs none
EvictedId(s, cap) == IF Len(s) >= cap /\ Len(s) > 0 THEN s[OldestIndex(s)].id ELSE "None"

\* what a pool call leaves in `last`; shutdown: the TaskManagers the call
\* has shut down
Call(op, key, raised, ret, evicted) ==
    [op |-> op, key |-> key, raised |-> raised, ret |-> ret, evicted |-> evicted,
     shutdown |-> {}]

\* what cleanup_session shuts down for the record r it has popped:
\* `if session.get("task_manager"): pass`
ShutdownCalls(r) == IF r.task_manager # "None" THEN {} ELSE {}

\* what the cleanup_session calls that take the dict from s to t shut down
Shutdowns(s, t) ==
    UNION {ShutdownCalls(s[i]) : i \in {j \in 1..Len(s) : ~HasKey(t, s[j].id)}}

\* a pool that takes every key for a new one
AlreadyRegistered_Never(s, id) == FALSE

\* `if session_id in self._sessions` of create_session
AlreadyRegistered(s, id) == HasKey(s, id)

\* create_session(session_id, config); mkdir_ok: whether creating the
\* session workdir succeeds; d: the clock's advance between the two reads
create_session(id, config, mkdir_ok, d) ==
    /\ now + d <= MaxTime
    /\ IF AlreadyRegistered(sessions, id)
       THEN /\ sessions' = sessions
            /\ now' = now
            /\ last' = Call("create_session", id, FALSE, "None", "None")
       ELSE IF ~mkdir_ok
       THEN /\ sessions' = MakeRoom(sessions, max_sessions)
            /\ now' = now
            /\ last' = [Call("create_session", id, TRUE, "None",
                              EvictedId(sessions, max_sessions))
                           EXCEPT !.shutdown = Shutdowns(sessions, sessions')]
       ELSE /\ sessions' = Append(MakeRoom(sessions, max_sessions),
                                  NewSession(id, config, now, now + d))
            /\ now' = now + d
            /\ last' = [Call("create_session", id, FALSE, "None",
                              EvictedId(sessions, max_sessions))
                           EXCEPT !.shutdown = Shutdowns(sessions, sessions')]
    /\ UNCHANGED <<max_sessions, session_timeout, execVars, threads, wf, bridge>>

\* a get_session that writes the start of the clock
Touch_Epoch(s, id, t) ==
    [i \in 1..Len(s) |-> IF s[i].id = id THEN [s[i] EXCEPT !.last_accessed = 0] ELSE s[i]]

\* a get_session that leaves last_accessed alone
Touch_Nothing(s, id, t) == s

\* the dict after get_session's write to last_accessed
Touch(s, id, t) ==
    [i \in 1..Len(s) |-> IF s[i].id = id THEN [s[i] EXCEPT !.last_accessed = t] ELSE s[i]]

\* get_session(session_id)
get_session(id) ==
    /\ sessions' = Touch(sessions, id, now)
    /\ last' = Call("get_session", id, FALSE,
                     IF HasKey(sessions, id) THEN Lookup(sessions', id) ELSE "None", "None")
    /\ UNCHANGED <<max_sessions, session_timeout, now, execVars, threads, wf, bridge>>

\* cleanup_session(session_id)
cleanup_session(id) ==
    /\ sessions' = Pop(sessions, id)
    /\ last' = [Call("cleanup_session", id, FALSE, HasKey(sessions, id), "None")
                   EXCEPT !.shutdown = Shutdowns(sessions, sessions')]
    /\ UNCHANGED <<max_sessions, session_timeout, now, execVars, threads, wf, bridge>>

\* an idle test that also takes a record idle for exactly the limit
IsIdle_AtLimit(r, t, limit) == t - r.last_accessed >= limit

\* the idle test of cleanup_idle_sessions
IsIdle(r, t, limit) == t - r.last_accessed > limit

\* the ids cleanup_idle_sessions collects
IdleSessions(s, t, limit) == SelectSeq(s, LAMBDA r : IsIdle(r, t, limit))

\* cleanup_idle_sessions()
cleanup_idle_sessions ==
    /\ sessions' = SelectSeq(sessions, LAMBDA r : ~IsIdle(r, now, session_timeout))
    /\ last' = [Call("cleanup_idle_sessions", "None", FALSE,
                      Len(IdleSessions(sessions, now, session_timeout)), "None")
                   EXCEPT !.shutdown = Shutdowns(sessions, sessions')]
    /\ UNCHANGED <<max_sessions, session_timeout, now, execVars, threads, wf, bridge>>

\* statistics that count the sessions instead of their tasks
SumTaskCount_Sessions(s) == Len(s)

RECURSIVE SumTaskCount(_)
\* sum(s["task_count"] for s in self._sessions.values())
SumTaskCount(s) == IF Len(s) = 0 THEN 0 ELSE Head(s).task_count + SumTaskCount(Tail(s))

\* get_stats()
get_stats ==
    /\ last' = Call("get_stats", "None", FALSE,
                     [active_sessions |-> Len(sessions),
                      max_sessions |-> max_sessions,
                      total_tasks |-> SumTaskCount(sessions)], "None")
    /\ UNCHANGED <<max_sessions, session_timeout, sessions, now, execVars, threads, wf, bridge>>

\* a caller counts a task on the record get_session handed out: the dict is
\* returned by reference, so the write lands in the pool
RecordTask(id) ==
    /\ HasKey(sessions, id)
    /\ Lookup(sessions, id).task_count < MaxTasks
    /\ sessions' = [i \in 1..Len(sessions) |->
                       IF sessions[i].id = id
                       THEN [sessions[i] EXCEPT !.task_count = @ + 1]
                       ELSE sessions[i]]
    /\ last' = Call("record_task", id, FALSE, "None", "None")
    /\ UNCHANGED <<max_sessions, session_timeout, now, execVars, threads, wf, bridge>>

\* the TaskManager a caller builds for the session id
Handle(id) == "TaskManager(" \o id \o ")"

\* a caller initializes the TaskManager of the record get_session handed
\* out ("Will be lazily initialized"): the dict is returned by reference, so
\* the write lands in the pool
AttachHandle(id) ==
    /\ HasKey(sessions, id)
    /\ Lookup(sessions, id).task_manager = "None"
    /\ sessions' = [i \in 1..Len(sessions) |->
                       IF sessions[i].id = id
                       THEN [sessions[i] EXCEPT !.task_manager = Handle(id)]
                       ELSE sessions[i]]
    /\ last' = Call("attach_handle", id, FALSE, "None", "None")
    /\ UNCHANGED <<max_sessions, session_timeout, now, execVars, threads, wf, bridge>>

\* time passes
Tick ==
    /\ now < MaxTime
    /\ now' = now + 1
    /\ last' = Call("tick", "None", FALSE, "None", "None")
    /\ UNCHANGED <<max_sessions, session_timeout, sessions, execVars, threads, wf, bridge>>

\* AipyappTaskManager.__init__
PoolInit ==
    /\ max_sessions \in 0..MaxCap
    /\ session_timeout = IdleTimeout
    /\ sessions = << >>
    /\ now = 0
    /\ last = Call("init", "None", FALSE, "None", "None")

\* ------------------------------------------------------ AipyappBridge
\* Python's {} and, for an Optional[Dict] argument, None (the code tests
\* such arguments by truth value only)
EmptyDict == [k \in {} |-> "None"]

\* d.get(k, default)
Get(d, k, default) == IF k \in DOMAIN d THEN d[k] ELSE default

\* d.update(e)
Update(d, e) == [k \in DOMAIN d \cup DOMAIN e |-> IF k \in DOMAIN e THEN e[k] ELSE d[k]]

\* a bridge that derives the workdir from the chat and the user
create_aipyapp_context_PerUser(ctx) ==
    [chat_key |-> ctx.chat_key,
     user_id |-> ctx.user_id,
     platform_type |-> ctx.platform_type,
     bot_id |-> ctx.bot_id,
     workdir |-> "/tmp/aipyapp_" \o ctx.chat_key \o "_" \o ctx.user_id,
     session_id |-> "nekro_" \o ctx.chat_key \o "_" \o ctx.user_id,
     created_by |-> "nekro-agent",
     orchestrator |-> "nekro-agent"]

\* create_aipyapp_context(ctx)
create_aipyapp_context(ctx) ==
    [chat_key |-> ctx.chat_key,
     user_id |-> ctx.user_id,
     platform_type |-> ctx.platform_type,
     bot_id |-> ctx.bot_id,
     workdir |-> "/tmp/aipyapp_" \o ctx.chat_key,
     session_id |-> "nekro_" \o ctx.chat_key \o "_" \o ctx.user_id,
     created_by |-> "nekro-agent",
     orchestrator |-> "nekro-agent"]

\* a bridge that takes a result without a success field for a success
format_result_for_nekro_Optimist(result) ==
    [success |-> Get(result, "success", TRUE),
     output |-> Get(result, "output", ""),
     error |-> Get(result, "error", "None"),
     artifacts |-> Get(result, "artifacts", << >>),
     execution_time |-> Get(result, "execution_time", 0),
     variables |-> Get(result, "variables", EmptyDict)]

\* format_result_for_nekro(result)
format_result_for_nekro(result) ==
    [success |-> Get(result, "success", FALSE),
     output |-> Get(result, "output", ""),
     error |-> Get(result, "error", "None"),
     artifacts |-> Get(result, "artifacts", << >>),
     execution_time |-> Get(result, "execution_time", 0),
     variables |-> Get(result, "variables", EmptyDict)]

\* a bridge with one suggestion for every error
get_recovery_suggestion_Same(error_type) == "Review task requirements and try again"

\* _get_recovery_suggestion(error_type)
get_recovery_suggestion(error_type) ==
    CASE error_type = "SyntaxError" -> "Check Python syntax in the generated code"
      [] error_type = "TimeoutError" ->
             "Task exceeded time limit, consider breaking into smaller tasks"
      [] error_type = "MemoryError" -> "Task used too much memory, optimize data processing"
      [] error_type = "ModuleNotFoundError" ->
             "Required Python module not available in sandbox"
      [] error_type = "ValueError" -> "Invalid input data, check task parameters"
      [] OTHER -> "Review task requirements and try again"

\* map_error(aipyapp_error); an exception is its type name and its str()
map_error(e) ==
    [error_type |-> e.type,
     error_message |-> e.msg,
     recovery_suggestion |-> get_recovery_suggestion(e.type)]

\* the fields of the dict format_result_for_nekro returns
ResultFields == {"success", "output", "error", "artifacts", "execution_time", "variables"}

\* d restricted to the keys in S
Restrict(d, S) == [k \in S \cap DOMAIN d |-> d[k]]

\* the AgentCtx values handed to create_aipyapp_context
AgentCtxs ==
    [chat_key : {"my_chat", "a", "a_b"},
     user_id : {"user_1", "c", "b_c"},
     platform_type : {"qq", "discord"},
     bot_id : {"bot_1", "bot_789"}]

\* the exceptions handed to map_error: type name and str()
MappedErrors ==
    [type : {"SyntaxError", "TimeoutError", "MemoryError", "ModuleNotFoundError",
             "ValueError", "RuntimeError", "IndentationError", "KeyError"},
     msg : {"", "invalid syntax on line 5", "Unknown error occurred"}]

\* no bridge call is being looked at
NoBridgeCall == [fn |-> "none", arg |-> EmptyDict, ret |-> EmptyDict]

\* the caller has taken the result of the bridge call
BridgeReturn ==
    /\ bridge # NoBridgeCall
    /\ bridge' = NoBridgeCall
    /\ UNCHANGED <<poolVars, now, execVars, threads, wf>>

\* AipyappBridge.create_aipyapp_context(ctx) is called
CreateContext(ctx) ==
    /\ bridge = NoBridgeCall
    /\ bridge' = [fn |-> "create_aipyapp_context", arg |-> ctx,
                  ret |-> create_aipyapp_context(ctx)]
    /\ UNCHANGED <<poolVars, now, execVars, threads, wf>>

\* AipyappBridge.format_result_for_nekro(result) is called
FormatResult(result) ==
    /\ bridge = NoBridgeCall
    /\ bridge' = [fn |-> "format_result_for_nekro", arg |-> result,
                  ret |-> format_result_for_nekro(result)]
    /\ UNCHANGED <<poolVars, now, execVars, threads, wf>>

\* AipyappBridge.map_error(aipyapp_error) is called
MapError(e) ==
    /\ bridge = NoBridgeCall
    /\ bridge' = [fn |-> "map_error", arg |-> e, ret |-> map_error(e)]
    /\ UNCHANGED <<poolVars, now, execVars, threads, wf>>

\* ------------------------------------------- AipyappSandboxExecutor
\* the AgentCtx values of the callers: two users of one chat, and a chat
\* whose key holds an underscore
Ctxs ==
    {[chat_key |-> "a", user_id |-> "c", platform_type |-> "test", bot_id |-> "bot"],
     [chat_key |-> "a", user_id |-> "b_c", platform_type |-> "test", bot_id |-> "bot"],
     [chat_key |-> "a_b", user_id |-> "c", platform_type |-> "test", bot_id |-> "bot"]}

\* the context argument of execute_task: None, or a dict of the caller's
\* that adds a key, that names a session and a workdir of its own, or that
\* names the chat and the user of another caller
Contexts ==
    {EmptyDict,
     [variables |-> "{x: 1}"],
     [workdir |-> "/tmp/aipyapp_x", session_id |-> "nekro_x_y", variables |-> "{x: 1}"],
     [chat_key |-> "a", user_id |-> "b_c", workdir |-> "/tmp/aipyapp_a",
      session_id |-> "nekro_a_b_c"]}

\* the instruction strings
Instructions == {"a", "b", "c"}

\* the exceptions the aipyapp runtime raises (constructing a TaskManager or
\* a Task, or in Task.run)
Exceptions ==
    {[type |-> "SyntaxError", msg |-> "invalid syntax on line 5"],
     [type |-> "RuntimeError", msg |-> "boom"]}

\* what a Task holds after Task.run returned: the messages of its rounds,
\* the files under its cwd (path, suffix) and its runtime globals (name,
\* whether the name starts with "_", whether the value is an int, float,
\* str, bool, list or dict, and the value)
TaskRuns ==
    {[lines |-> << >>, files |-> << >>, globals |-> << >>],
     [lines |-> <<"l1", "l2">>,
      files |-> <<[path |-> "plot.png", suffix |-> ".png"],
                  [path |-> "notes.md", suffix |-> ".md"]>>,
      globals |-> <<[name |-> "x", private |-> FALSE, plain |-> TRUE, value |-> 1],
                    [name |-> "_p", private |-> TRUE, plain |-> TRUE, value |-> 2],
                    [name |-> "f", private |-> FALSE, plain |-> FALSE, value |-> 3]>>]}

\* f"{ctx.chat_key}_{ctx.user_id}"
SessionId(ctx) == ctx.chat_key \o "_" \o ctx.user_id

\* str() of a small natural number
Digit(n) == CASE n = 0 -> "0" [] n = 1 -> "1" [] n = 2 -> "2" [] n = 3 -> "3"
              [] n = 4 -> "4" [] n = 5 -> "5" [] n = 6 -> "6" [] n = 7 -> "7"
              [] n = 8 -> "8" [] n = 9 -> "9"
RECURSIVE IntToStr(_)
IntToStr(n) == IF n < 10 THEN Digit(n) ELSE IntToStr(n \div 10) \o Digit(n % 10)

\* f"Task execution exceeded {self.timeout}s timeout"
TimeoutMessage(t) == "Task execution exceeded " \o IntToStr(t) \o "s timeout"

\* AipyappExecutionError(message), raised `from` cause: the exception object
\* holds its message and its __cause__ and nothing else
AipyappExecutionError(message, cause) ==
    [type |-> "AipyappExecutionError", message |-> message, cause |-> cause]

\* the except clauses of execute_task
TimeoutRaised(t) == AipyappExecutionError(TimeoutMessage(t), "TimeoutError")
ExceptionRaised(e) == AipyappExecutionError(map_error(e).error_message, e.type)

\* a wait_for that is given no timeout: its timer never fires
Deadline_None(t, limit) == MaxTime + 1

\* the deadline asyncio.wait_for sets when it is called at time t
Deadline(t, limit) == t + limit

\* a _get_task_manager without its presence check
NeedsTaskManager_Always(tms, sid) == TRUE

\* `session_id not in self._task_managers`
NeedsTaskManager(tms, sid) == sid \notin DOMAIN tms

\* self._task_managers[session_id] = task_manager
Store(tms, sid, h) == [k \in DOMAIN tms \cup {sid} |-> IF k = sid THEN h ELSE tms[k]]

\* a cleanup that keeps the TaskManager
Remove_Nothing(tms, sid) == tms

\* self._task_managers.pop(session_id)
Remove(tms, sid) == [k \in DOMAIN tms \ {sid} |-> tms[k]]

\* a session taken from the chat and the user the context names, when it
\* names them
SessionOf_FromContext(ctx, context) ==
    Get(context, "chat_key", ctx.chat_key) \o "_" \o Get(context, "user_id", ctx.user_id)

\* the session execute_task(ctx, instruction, context) runs on:
\* _get_task_manager is given ctx and nothing of the context
SessionOf(ctx, context) == SessionId(ctx)

\* a merge in which the derived values win
MergeContext_DerivedWins(ctx, context) ==
    Update(context, create_aipyapp_context(ctx))

\* aipyapp_ctx = create_aipyapp_context(ctx); if context: aipyapp_ctx.update(context)
MergeContext(ctx, context) ==
    IF DOMAIN context # {}
    THEN Update(create_aipyapp_context(ctx), context)
    ELSE create_aipyapp_context(ctx)

RECURSIVE Join(_, _)
\* sep.join(lines)
Join(lines, sep) ==
    IF Len(lines) = 0 THEN ""
    ELSE IF Len(lines) = 1 THEN lines[1]
    ELSE lines[1] \o sep \o Join(Tail(lines), sep)

\* the suffixes _execute_in_aipyapp collects as artifacts
ArtifactSuffixes == {".png", ".jpg", ".csv", ".json", ".txt"}

RECURSIVE Paths(_)
Paths(files) == IF Len(files) = 0 THEN << >> ELSE <<Head(files).path>> \o Paths(Tail(files))

\* the artifacts loop of _execute_in_aipyapp
CollectArtifacts(files) == Paths(SelectSeq(files, LAMBDA f : f.suffix \in ArtifactSuffixes))

\* the variables loop of _execute_in_aipyapp
CollectVariables(globals) ==
    LET kept == {i \in 1..Len(globals) : ~globals[i].private /\ globals[i].plain}
    IN [n \in {globals[i].name : i \in kept} |->
           globals[CHOOSE i \in kept : globals[i].name = n].value]

\* the dict _execute_in_aipyapp returns when Task.run returned
SuccessResult(run, elapsed) ==
    [success |-> TRUE,
     output |-> IF Len(run.lines) > 0 THEN Join(run.lines, "\n")
                ELSE "Task completed successfully",
     artifacts |-> CollectArtifacts(run.files),
     execution_time |-> elapsed,
     variables |-> CollectVariables(run.globals)]

\* the dict the except clause of _execute_in_aipyapp returns
FailureResult(e, elapsed) ==
    [success |-> FALSE,
     output |-> "",
     error |-> e.msg,
     artifacts |-> << >>,
     execution_time |-> elapsed,
     variables |-> EmptyDict]

\* what _execute_in_aipyapp does with an exception of Task(...) or Task.run
OnRuntimeException(e, elapsed) == [returned |-> TRUE, value |-> FailureResult(e, elapsed)]

NoCtx == [chat_key |-> "", user_id |-> "", platform_type |-> "", bot_id |-> ""]
NoOutcome == [kind |-> "none"]

\* a call that has not been made
IdleCall ==
    [pc |-> "idle", ctx |-> NoCtx, instruction |-> "", context |-> EmptyDict,
     task_manager |-> 0, aipyapp_ctx |-> EmptyDict, inner |-> "none",
     work |-> "none", outcome |-> NoOutcome, start_time |-> 0, deadline |-> 0,
     result |-> EmptyDict, error |-> EmptyDict, fresh |-> FALSE, stale |-> FALSE]

\* AipyappSandboxExecutor.__init__
ExecInit ==
    /\ timeout = TaskTimeout
    /\ task_managers = EmptyDict
    /\ next_handle = 1
    /\ calls = [c \in CallIds |-> IdleCall]

\* a caller makes the call execute_task(ctx, instruction, context): the
\* coroutine exists and has not run yet. fresh: the session has no
\* TaskManager at that moment
Submit(c, ctx, instruction, context) ==
    /\ calls[c].pc = "idle"
    /\ \A b \in CallIds : Before(b, c) => calls[b].pc # "idle"
    /\ calls' = [calls EXCEPT ![c] =
                   [IdleCall EXCEPT !.pc = "pending", !.ctx = ctx,
                                    !.instruction = instruction, !.context = context,
                                    !.fresh = NeedsTaskManager(task_managers, SessionId(ctx))]]
    /\ UNCHANGED <<timeout, task_managers, next_handle, now, poolVars, threads, wf, bridge>>

\* execute_task from its first line to the await of asyncio.wait_for, with
\* _get_task_manager in it: no await on the way suspends, so the event loop
\* runs it as one step. built: whether constructing the TaskManager (mkdir,
\* ConfigManager, TaskManager) succeeds; e: what it raises otherwise
Begin(c, built, e) ==
    LET call == calls[c]
        sid == SessionOf(call.ctx, call.context)
    IN
    /\ call.pc = "pending"
    /\ now + timeout <= MaxTime
    /\ IF NeedsTaskManager(task_managers, sid) /\ ~built
       THEN /\ calls' = [calls EXCEPT ![c].pc = "raised", ![c].error = ExceptionRaised(e)]
            /\ UNCHANGED <<task_managers, next_handle>>
       ELSE LET tms == IF NeedsTaskManager(task_managers, sid)
                       THEN Store(task_managers, sid, next_handle)
                       ELSE task_managers
            IN /\ task_managers' = tms
               /\ next_handle' = IF NeedsTaskManager(task_managers, sid)
                                 THEN next_handle + 1 ELSE next_handle
               /\ calls' = [calls EXCEPT
                     ![c].pc = "waiting",
                     ![c].task_manager = tms[sid],
                     ![c].aipyapp_ctx = MergeContext(call.ctx, call.context),
                     ![c].inner = "scheduled",
                     ![c].deadline = Deadline(now, timeout)]
    /\ UNCHANGED <<timeout, now, poolVars, threads, wf, bridge>>

\* _execute_in_aipyapp from its first line to the await of run_in_executor:
\* Task(task_manager) is built and Task.run is handed to a worker thread
\* (an exception of Task(...) meets the same except clause as one of
\* Task.run and is modelled as that)
InnerStart(c) ==
    /\ calls[c].pc = "waiting"
    /\ calls[c].inner = "scheduled"
    /\ calls' = [calls EXCEPT ![c].inner = "in_executor", ![c].work = "running",
                              ![c].start_time = now]
    /\ UNCHANGED <<timeout, task_managers, next_handle, now, poolVars, threads, wf, bridge>>

\* what the worker thread leaves for _execute_in_aipyapp: nothing once
\* the coroutine has been cancelled
Left(call, outcome) == IF call.pc = "waiting" THEN outcome ELSE NoOutcome

\* the worker thread: Task.run(instruction) returns
RunReturns(c, run) ==
    /\ calls[c].work = "running"
    /\ calls' = [calls EXCEPT ![c].work = "ok",
                              ![c].outcome = Left(calls[c], [kind |-> "ok", run |-> run])]
    /\ UNCHANGED <<timeout, task_managers, next_handle, now, poolVars, threads, wf, bridge>>

\* the worker thread: Task.run(instruction) raises
RunRaises(c, e) ==
    /\ calls[c].work = "running"
    /\ calls' = [calls EXCEPT ![c].work = "raised",
                              ![c].outcome = Left(calls[c], [kind |-> "exc", exc |-> e])]
    /\ UNCHANGED <<timeout, task_managers, next_handle, now, poolVars, threads, wf, bridge>>

\* a call that has ended: its result or its error; the locals of the two
\* coroutines are gone
Ended(call, pc, inner, result, error) ==
    [call EXCEPT !.pc = pc, !.inner = inner, !.result = result, !.error = error,
                 !.outcome = NoOutcome, !.start_time = 0, !.deadline = 0]

\* what _execute_in_aipyapp ends with, given what the runtime did
InnerOutcome(call, t) ==
    IF call.outcome.kind = "ok"
    THEN [returned |-> TRUE, value |-> SuccessResult(call.outcome.run, t - call.start_time)]
    ELSE OnRuntimeException(call.outcome.exc, t - call.start_time)

\* the rest of _execute_in_aipyapp and of execute_task once the worker
\* thread is done: the result is collected, wait_for
\* returns it and execute_task formats and returns it, or the exception goes
\* to execute_task's except clause
Finish(c) ==
    LET call == calls[c]
        o == InnerOutcome(call, now)
    IN
    /\ call.pc = "waiting"
    /\ call.inner = "in_executor"
    /\ call.work \in {"ok", "raised"}
    /\ IF o.returned
       THEN calls' = [calls EXCEPT ![c] = Ended(call, "returned", "done",
                                                format_result_for_nekro(o.value), EmptyDict)]
       ELSE calls' = [calls EXCEPT ![c] = Ended(call, "raised", "done",
                                                EmptyDict, ExceptionRaised(o.value))]
    /\ UNCHANGED <<timeout, task_managers, next_handle, now, poolVars, threads, wf, bridge>>

\* whether the timer of wait_for has fired
TimerFired(call, t) == t >= call.deadline

\* the deadline passes before _execute_in_aipyapp is done: wait_for cancels
\* the coroutine (the worker thread is not touched by that) and raises
\* TimeoutError, which execute_task turns into its own error
Timeout(c) ==
    /\ calls[c].pc = "waiting"
    /\ calls[c].inner \in {"scheduled", "in_executor"}
    /\ TimerFired(calls[c], now)
    /\ calls' = [calls EXCEPT ![c] = Ended(calls[c], "raised", "cancelled",
                                           EmptyDict, TimeoutRaised(timeout))]
    /\ UNCHANGED <<timeout, task_managers, next_handle, now, poolVars, threads, wf, bridge>>

\* AipyappSandboxExecutor.cleanup_session(ctx); when it drops a
\* TaskManager, the calls made before it for the session are marked stale
ExecCleanup(ctx) ==
    LET sid == SessionId(ctx) IN
    /\ IF sid \in DOMAIN task_managers
       THEN /\ task_managers' = Remove(task_managers, sid)
            /\ calls' = [c \in CallIds |->
                           IF calls[c].pc # "idle" /\ SessionId(calls[c].ctx) = sid
                           THEN [calls[c] EXCEPT !.stale = TRUE] ELSE calls[c]]
       ELSE UNCHANGED <<task_managers, calls>>
    /\ UNCHANGED <<timeout, next_handle, now, poolVars, threads, wf, bridge>>

\* time passes for the executor
ExecTick ==
    /\ now < MaxTime
    /\ now' = now + 1
    /\ UNCHANGED <<timeout, task_managers, next_handle, calls, poolVars, threads, wf, bridge>>

\* ------------------------- AipyappTaskManager called from threads
\* create_session has no lock. Between its statements, and while mkdir is
\* in the kernel, another thread runs. The statements are taken as steps;
\* the other operations of the pool are taken whole, as above.
IdleThread == [pc |-> "idle", id |-> "None", config |-> "None"]

\* a thread enters create_session(id, config)
ThreadCall(t, id, config) ==
    /\ threads[t].pc = "idle"
    /\ threads' = [threads EXCEPT ![t] = [pc |-> "check", id |-> id, config |-> config]]
    /\ UNCHANGED <<poolVars, now, execVars, wf, bridge>>

\* `if session_id in self._sessions: return`, then
\* `if len(self._sessions) >= self.max_sessions: self._cleanup_oldest_session()`
ThreadCheck(t) ==
    /\ threads[t].pc = "check"
    /\ IF AlreadyRegistered(sessions, threads[t].id)
       THEN /\ threads' = [threads EXCEPT ![t] = IdleThread]
            /\ sessions' = sessions
            /\ last' = Call("create_session", threads[t].id, FALSE, "None", "None")
       ELSE /\ threads' = [threads EXCEPT ![t].pc = "mkdir"]
            /\ sessions' = MakeRoom(sessions, max_sessions)
            /\ last' = last
    /\ UNCHANGED <<max_sessions, session_timeout, now, execVars, wf, bridge>>

\* session_workdir.mkdir(parents=True, exist_ok=True)
ThreadMkdir(t, mkdir_ok) ==
    /\ threads[t].pc = "mkdir"
    /\ IF mkdir_ok
       THEN /\ threads' = [threads EXCEPT ![t].pc = "store"]
            /\ last' = last
       ELSE /\ threads' = [threads EXCEPT ![t] = IdleThread]
            /\ last' = Call("create_session", threads[t].id, TRUE, "None", "None")
    /\ UNCHANGED <<max_sessions, session_timeout, sessions, now, execVars, wf, bridge>>

\* d[id] = r: a key that is there keeps its place
SetItem(s, id, r) ==
    IF HasKey(s, id)
    THEN [i \in 1..Len(s) |-> IF s[i].id = id THEN r ELSE s[i]]
    ELSE Append(s, r)

\* self._sessions[session_id] = {...}
ThreadStore(t) ==
    /\ threads[t].pc = "store"
    /\ sessions' = SetItem(sessions, threads[t].id,
                           NewSession(threads[t].id, threads[t].config, now, now))
    /\ threads' = [threads EXCEPT ![t] = IdleThread]
    /\ last' = Call("create_session", threads[t].id, FALSE, "None", "None")
    /\ UNCHANGED <<max_sessions, session_timeout, now, execVars, wf, bridge>>

\* ------------------------------------------ execute_python_workflow
\* the k-th instruction of a workflow
Instr(k) == "i" \o IntToStr(k)

\* the instruction lists given to execute_python_workflow
InstructionLists == {[k \in 1..n |-> Instr(k)] : n \in 0..MaxSteps}

\* the AgentCtx of the workflow's caller
WfCtx == CHOOSE ctx \in Ctxs : ctx.chat_key = "a" /\ ctx.user_id = "c"

\* the execute_task call of the step being run
WfCall == "c1"

IdleWorkflow ==
    [pc |-> "idle", instruction_list |-> << >>, i |-> 0, steps_results |-> << >>,
     context_dict |-> EmptyDict, total_time |-> 0, started |-> << >>, ret |-> EmptyDict]

\* execute_python_workflow(ctx, instructions) up to its loop. input: the
\* plugin is not initialized, the string is no JSON list, or it is one
WorkflowCall(input, list) ==
    /\ wf.pc = "idle"
    /\ wf' = CASE input = "uninitialized" ->
                    [wf EXCEPT !.pc = "done",
                               !.ret = [success |-> FALSE,
                                        error |-> "aipyapp executor not initialized",
                                        steps |-> << >>]]
               [] input = "invalid" ->
                    [wf EXCEPT !.pc = "done",
                               !.ret = [success |-> FALSE,
                                        error |-> "Invalid instructions format: Instructions must be a JSON array",
                                        steps |-> << >>]]
               [] OTHER -> [wf EXCEPT !.pc = "loop", !.instruction_list = list]
    /\ UNCHANGED <<poolVars, now, execVars, threads, bridge>>

RECURSIVE AllArtifacts(_)
\* the artifacts of the steps, one after the other
AllArtifacts(steps) ==
    IF Len(steps) = 0 THEN << >>
    ELSE Get(Head(steps), "artifacts", << >>) \o AllArtifacts(Tail(steps))

\* what the workflow returns after its loop; steps_results[-1] of an empty
\* list raises IndexError, which the outer except clause turns into a result
AfterLoop(w) ==
    IF Len(w.steps_results) = 0
    THEN [success |-> FALSE, error |-> "list index out of range", steps |-> w.steps_results]
    ELSE [success |-> TRUE,
          steps |-> w.steps_results,
          final_output |-> Get(w.steps_results[Len(w.steps_results)], "output", ""),
          artifacts |-> AllArtifacts(w.steps_results),
          total_time |-> w.total_time]

\* the head of the loop: the next instruction is handed to execute_task
\* with context_dict, or the loop is over
WorkflowNext ==
    /\ wf.pc = "loop"
    /\ IF wf.i < Len(wf.instruction_list)
       THEN /\ calls[WfCall].pc \in {"idle", "returned"}
            /\ calls' = [calls EXCEPT ![WfCall] =
                  [IdleCall EXCEPT
                      !.pc = "pending", !.ctx = WfCtx,
                      !.instruction = wf.instruction_list[wf.i + 1],
                      !.context = wf.context_dict,
                      !.fresh = NeedsTaskManager(task_managers, SessionId(WfCtx))]]
            /\ wf' = [wf EXCEPT !.pc = "await",
                                !.started = Append(@, wf.instruction_list[wf.i + 1])]
       ELSE /\ wf' = [wf EXCEPT !.pc = "done", !.ret = AfterLoop(wf)]
            /\ calls' = calls
    /\ UNCHANGED <<poolVars, now, timeout, task_managers, next_handle, threads, bridge>>

\* the loop goes on whatever the step reported
StepFailed_Never(step_result) == FALSE

\* `not step_result.get("success")`
StepFailed(step_result) == ~Get(step_result, "success", FALSE)

\* a workflow that hands nothing on to the next step
NextContext_Same(context_dict, step_result) == context_dict

\* context_dict["variables"] = step_result.get("variables", {})
NextContext(context_dict, step_result) ==
    Update(context_dict, [variables |-> Get(step_result, "variables", EmptyDict)])

\* the entry appended to steps_results
StepEntry(i, instruction, step_result) ==
    Update([step |-> i + 1, instruction |-> instruction], step_result)

\* execute_task has returned: the body of the loop after the await
WorkflowStepReturned ==
    LET step_result == calls[WfCall].result
        steps == Append(wf.steps_results,
                        StepEntry(wf.i, wf.instruction_list[wf.i + 1], step_result))
    IN
    /\ wf.pc = "await"
    /\ calls[WfCall].pc = "returned"
    /\ IF StepFailed(step_result)
       THEN wf' = [wf EXCEPT
                     !.pc = "done", !.steps_results = steps,
                     !.ret = [success |-> FALSE,
                              steps |-> steps,
                              error |-> "Step " \o IntToStr(wf.i + 1) \o " failed: "
                                          \o Get(step_result, "error", "None"),
                              total_time |-> wf.total_time]]
       ELSE wf' = [wf EXCEPT
                     !.pc = "loop", !.steps_results = steps, !.i = @ + 1,
                     !.context_dict = NextContext(@, step_result),
                     !.total_time = @ + Get(step_result, "execution_time", 0)]
    /\ UNCHANGED <<poolVars, now, execVars, threads, bridge>>

\* execute_task has raised: the outer except clause
WorkflowStepRaised ==
    /\ wf.pc = "await"
    /\ calls[WfCall].pc = "raised"
    /\ wf' = [wf EXCEPT !.pc = "done",
                        !.ret = [success |-> FALSE,
                                 error |-> calls[WfCall].error.message,
                                 steps |-> wf.steps_results]]
    /\ UNCHANGED <<poolVars, now, execVars, threads, bridge>>

CreateSessionStep == \E id \in PoolKeys, c \in Configs, ok \in BOOLEAN, d \in 0..1 :
                         create_session(id, c, ok, d)
GetSessionStep == \E id \in PoolKeys : get_session(id)
CleanupSessionStep == \E id \in PoolKeys : cleanup_session(id)

SubmitStep == \E c \in CallIds, ctx \in Ctxs : Submit(c, ctx, "a", EmptyDict)
BeginStep == \E c \in CallIds, built \in BOOLEAN, e \in Exceptions : Begin(c, built, e)
InnerStartStep == \E c \in CallIds : InnerStart(c)
RunReturnsStep == \E c \in CallIds, run \in TaskRuns : RunReturns(c, run)
RunRaisesStep == \E c \in CallIds, e \in Exceptions : RunRaises(c, e)
FinishStep == \E c \in CallIds : Finish(c)
TimeoutStep == \E c \in CallIds : Timeout(c)
ExecCleanupStep == \E ctx \in Ctxs : ExecCleanup(ctx)

ThreadCallStep == \E t \in ThreadIds, id \in PoolKeys : ThreadCall(t, id, "None")
ThreadCheckStep == \E t \in ThreadIds : ThreadCheck(t)
ThreadMkdirStep == \E t \in ThreadIds, ok \in BOOLEAN : ThreadMkdir(t, ok)
ThreadStoreStep == \E t \in ThreadIds : ThreadStore(t)
WorkflowCallStep ==
    \E input \in {"uninitialized", "invalid", "list"}, list \in InstructionLists :
        WorkflowCall(input, list)

vars == <<poolVars, now, execVars, threads, wf, bridge>>

\* nothing but the pool is in use
OthersIdle ==
    /\ ExecInit
    /\ threads = [t \in ThreadIds |-> IdleThread]
    /\ wf = IdleWorkflow
    /\ bridge = NoBridgeCall

Init == PoolInit /\ OthersIdle

Next ==
    \/ CreateSessionStep
    \/ GetSessionStep
    \/ CleanupSessionStep
    \/ cleanup_idle_sessions
    \/ get_stats
    \/ Tick

\* one pool, its operations called one after the other
Spec == Init /\ [][Next]_vars

RecordTaskStep == \E id \in PoolKeys : RecordTask(id)

CreateSessionNowStep == \E id \in PoolKeys, c \in Configs : create_session(id, c, TRUE, 0)

NextUse ==
    \/ CreateSessionNowStep
    \/ GetSessionStep
    \/ CleanupSessionStep
    \/ get_stats
    \/ RecordTaskStep

\* one pool whose callers count tasks on the records they get
SpecUse == Init /\ [][NextUse]_vars

AttachHandleStep == \E id \in PoolKeys : AttachHandle(id)

NextHandles ==
    \/ CreateSessionNowStep
    \/ CleanupSessionStep
    \/ cleanup_idle_sessions
    \/ AttachHandleStep
    \/ Tick

\* one pool whose callers initialize the TaskManagers of their records
SpecHandles == Init /\ [][NextHandles]_vars

CreateContextStep == \E ctx \in AgentCtxs : CreateContext(ctx)
FormatResultStep ==
    \E S \in SUBSET (ResultFields \cup {"stdout"}),
       success \in BOOLEAN, output \in {"", "42"}, error \in {"None", "boom"},
       artifacts \in {<< >>, <<"plot.png">>}, execution_time \in {0, 2},
       variables \in {EmptyDict, [x |-> 1]} :
        FormatResult(Restrict([success |-> success, output |-> output, error |-> error,
                               artifacts |-> artifacts, execution_time |-> execution_time,
                               variables |-> variables, stdout |-> "42"], S))
MapErrorStep == \E e \in MappedErrors : MapError(e)

NextBridge ==
    \/ CreateContextStep
    \/ FormatResultStep
    \/ MapErrorStep
    \/ BridgeReturn

InitExec ==
    /\ PoolInit
    /\ max_sessions = MaxCap
    /\ OthersIdle

NextExec ==
    \/ SubmitStep
    \/ BeginStep
    \/ InnerStartStep
    \/ RunReturnsStep
    \/ RunRaisesStep
    \/ FinishStep
    \/ TimeoutStep
    \/ ExecCleanupStep
    \/ ExecTick

\* one executor, execute_task calls in flight together on one event loop
SpecExec == InitExec /\ [][NextExec]_vars

SubmitSameStep == \E c \in CallIds : Submit(c, CHOOSE ctx \in Ctxs : ctx.user_id = "c" /\ ctx.chat_key = "a", "a", EmptyDict)

NextExecSame ==
    \/ SubmitSameStep
    \/ BeginStep
    \/ InnerStartStep
    \/ RunReturnsStep
    \/ RunRaisesStep
    \/ FinishStep
    \/ TimeoutStep
    \/ ExecCleanupStep
    \/ ExecTick

\* calls for one session, with what the event loop and the clock guarantee:
\* time passes, and a timer that is due fires (Task.run is in a worker
\* thread, the loop is never blocked by it). Nothing makes Task.run return.
SpecExecFair ==
    /\ InitExec
    /\ [][NextExecSame]_vars
    /\ WF_vars(ExecTick)
    /\ \A c \in CallIds : WF_vars(Timeout(c))

\* execute_task with a context of the caller's
SubmitContextStep ==
    \E c \in CallIds, ctx \in Ctxs, context \in Contexts : Submit(c, ctx, "a", context)

NextContexts ==
    \/ SubmitContextStep
    \/ BeginStep
    \/ InnerStartStep
    \/ RunReturnsStep
    \/ FinishStep
    \/ ExecCleanupStep

\* one executor whose callers pass contexts of their own; the runs return
\* in time
SpecContexts == InitExec /\ [][NextContexts]_vars

NextThreads ==
    \/ ThreadCallStep
    \/ ThreadCheckStep
    \/ ThreadMkdirStep
    \/ ThreadStoreStep
    \/ CleanupSessionStep
    \/ Tick

\* one pool, create_session called from threads
SpecThreads == Init /\ [][NextThreads]_vars

NextWorkflow ==
    \/ WorkflowCallStep
    \/ WorkflowNext
    \/ BeginStep
    \/ InnerStartStep
    \/ RunReturnsStep
    \/ RunRaisesStep
    \/ FinishStep
    \/ TimeoutStep
    \/ WorkflowStepReturned
    \/ WorkflowStepRaised
    \/ ExecTick

\* one execute_python_workflow call on the plugin's executor
SpecWorkflow == InitExec /\ [][NextWorkflow]_vars

\* the plugin's executor next to the plugin's pool, of any capacity
SpecPlugin == Init /\ [][NextExec]_vars

\* the bridge's functions, called with any input
SpecBridge == InitExec /\ [][NextBridge]_vars

\* ------------------------------------------------------------ claims
\* C1: for every max_sessions >= 0 and after any sequence of pool calls the
\* number of registered sessions never exceeds max_sessions.
C1_CapacityBound == Len(sessions) <= max_sessions

\* C2: create_session of an unregistered key on a pool that holds
\* max_sessions >= 1 records removes exactly one record, one whose
\* last_accessed is minimal, keeps every other record as it was and
\* registers the new key (for a call that completes).
C2_EvictsLeastRecentlyAccessed ==
    [][ ( /\ last'.op = "create_session"
          /\ ~last'.raised
          /\ ~HasKey(sessions, last'.key)
          /\ max_sessions >= 1
          /\ Len(sessions) = max_sessions )
        => \E i \in 1..Len(sessions) :
              /\ \A j \in 1..Len(sessions) :
                     sessions[i].last_accessed <= sessions[j].last_accessed
              /\ Keys(sessions') = (Keys(sessions) \ {sessions[i].id}) \cup {last'.key}
              /\ Len(sessions') = Len(sessions)
              /\ \A j \in 1..Len(sessions) :
                     j # i => /\ HasKey(sessions', sessions[j].id)
                              /\ Lookup(sessions', sessions[j].id) = sessions[j] ]_vars

\* a completed create_session on a full pool of two or more has evicted a
\* record and kept one that was accessed after its creation
C2_Witness ==
    /\ last.op = "create_session"
    /\ ~last.raised
    /\ last.evicted # "None"
    /\ max_sessions >= 2
    /\ Len(sessions) = max_sessions
    /\ HasKey(sessions, last.key)
    /\ \E i \in 1..Len(sessions) :
          sessions[i].id # last.key /\ sessions[i].last_accessed > sessions[i].created_at

\* C3: two sessions with different session keys share neither a workdir nor
\* a runtime handle: for two calls whose derived session keys differ, the
\* derived workdirs differ and the TaskManagers they run on differ.
C3_SessionsShareNothing ==
    \A c1, c2 \in CallIds :
        ( /\ calls[c1].task_manager # 0
          /\ calls[c2].task_manager # 0
          /\ create_aipyapp_context(calls[c1].ctx).session_id
                # create_aipyapp_context(calls[c2].ctx).session_id )
        => /\ create_aipyapp_context(calls[c1].ctx).workdir
                # create_aipyapp_context(calls[c2].ctx).workdir
           /\ calls[c1].task_manager # calls[c2].task_manager

\* C4: if Task.run does not return, execute_task still ends: while the run
\* is in progress the call never returns a TaskResult, and a call waiting for
\* a run in progress leads to the run being over or to the call having
\* raised the timeout error that names the configured timeout.
C4_TimeoutEndsTheCall ==
    /\ [](\A c \in CallIds : calls[c].work = "running" => calls[c].pc # "returned")
    /\ \A c \in CallIds :
          (calls[c].pc = "waiting" /\ calls[c].work = "running")
          ~> \/ calls[c].work # "running"
             \/ /\ calls[c].pc = "raised"
                /\ calls[c].error.type = "AipyappExecutionError"
                /\ calls[c].error.message =
                       "Task execution exceeded " \o IntToStr(timeout) \o "s timeout"

\* a call has ended with the timeout error while its run has not returned
C4_Witness ==
    \E c \in CallIds :
        /\ calls[c].pc = "raised"
        /\ calls[c].work = "running"
        /\ calls[c].error = TimeoutRaised(TaskTimeout)

\* C5: when Task.run raised, execute_task raises and returns no TaskResult.
C5_RuntimeExceptionIsRaised ==
    \A c \in CallIds : calls[c].work = "raised" => calls[c].pc # "returned"

\* C6: the error execute_task raises for a SyntaxError of the runtime carries
\* the ErrorInfo of map_error: the error kind and the recovery suggestion,
\* not only the message.
C6_ErrorCarriesErrorInfo ==
    \A c \in CallIds :
        (calls[c].pc = "raised" /\ calls[c].error.cause = "SyntaxError")
        => /\ "error_type" \in DOMAIN calls[c].error
           /\ calls[c].error.error_type = "SyntaxError"
           /\ "recovery_suggestion" \in DOMAIN calls[c].error
           /\ calls[c].error.recovery_suggestion
                = "Check Python syntax in the generated code"

\* C7: execute_task calls for one session that were made while the session
\* had no TaskManager (and with no cleanup_session for it since) all run on
\* one and the same TaskManager, the one registered for the session.
C7_OneHandlePerSession ==
    \A c1, c2 \in CallIds :
        ( /\ calls[c1].fresh /\ calls[c2].fresh
          /\ ~calls[c1].stale /\ ~calls[c2].stale
          /\ SessionId(calls[c1].ctx) = SessionId(calls[c2].ctx)
          /\ calls[c1].task_manager # 0
          /\ calls[c2].task_manager # 0 )
        => /\ calls[c1].task_manager = calls[c2].task_manager
           /\ task_managers[SessionId(calls[c1].ctx)] = calls[c1].task_manager

\* two calls made for one session while it had no TaskManager are both in
\* flight on one TaskManager
C7_Witness ==
    \E c1, c2 \in CallIds :
        /\ c1 # c2
        /\ calls[c1].fresh /\ calls[c2].fresh
        /\ ~calls[c1].stale /\ ~calls[c2].stale
        /\ SessionId(calls[c1].ctx) = SessionId(calls[c2].ctx)
        /\ calls[c1].pc = "waiting" /\ calls[c2].pc = "waiting"
        /\ calls[c1].work = "running" /\ calls[c2].work = "running"
        /\ calls[c1].task_manager = calls[c2].task_manager
        /\ calls[c1].task_manager # 0

\* C9: when execute_task has ended with the timeout error, the run it
\* started is over, or the session's TaskManager has been dropped.
C9_NoWorkSurvivesTimeout ==
    \A c \in CallIds :
        (calls[c].pc = "raised" /\ calls[c].error = TimeoutRaised(timeout))
        => \/ calls[c].work # "running"
           \/ SessionId(calls[c].ctx) \notin DOMAIN task_managers

\* C8: the pool's operations exclude one another when threads call them, so
\* that under every interleaving of create_session calls from threads a pool
\* of max_sessions >= 1 holds at most max_sessions sessions.
C8_CapacityHoldsAmongThreads ==
    max_sessions >= 1 => Len(sessions) <= max_sessions

\* the steps recorded so far that report no success
FailedSteps(steps) == {k \in 1..Len(steps) : ~Get(steps[k], "success", FALSE)}

\* C10: the workflow hands the instructions to execute_task in the given
\* order; once a step's result has success = false or its call has raised, no
\* further instruction is started and no further step recorded; and the
\* workflow returns success = true only when every instruction was run and
\* every step reported success.
C10_WorkflowStopsAtFirstFailure ==
    LET list == wf.instruction_list
        steps == wf.steps_results
        started == wf.started
    IN
    /\ Len(started) <= Len(list)
    /\ \A k \in 1..Len(started) : started[k] = list[k]
    /\ Len(steps) <= Len(started)
    /\ Len(started) <= Len(steps) + 1
    /\ \A k \in 1..Len(steps) : steps[k].instruction = list[k] /\ steps[k].step = k
    /\ FailedSteps(steps) \subseteq {Len(steps)}
    /\ FailedSteps(steps) # {} => Len(started) = Len(steps) /\ wf.pc = "done"
    /\ wf.pc = "await" /\ calls[WfCall].pc = "raised" => Len(started) = Len(steps) + 1
    /\ wf.pc = "done" =>
          /\ wf.ret.steps = steps
          /\ Len(started) < Len(list) \/ Len(started) > Len(steps) \/ FailedSteps(steps) # {}
                => ~wf.ret.success
          /\ wf.ret.success =>
                /\ Len(steps) = Len(list)
                /\ started = list
                /\ FailedSteps(steps) = {}

\* the workflow of three instructions has ended at its second step, whose
\* result has success = false: two steps are recorded, the third
\* instruction was never started, and the workflow reports no success
C10_Witness ==
    /\ wf.pc = "done"
    /\ Len(wf.instruction_list) = 3
    /\ Len(wf.steps_results) = 2
    /\ wf.steps_results[1].success
    /\ ~wf.steps_results[2].success
    /\ wf.started = <<Instr(1), Instr(2)>>
    /\ ~wf.ret.success
    /\ Len(wf.ret.steps) = 2

\* the records of a dict, as a set
Records(s) == {s[i] : i \in 1..Len(s)}

\* C11: cleanup_idle_sessions removes exactly the records whose idle time
\* (now minus last_accessed) exceeds session_timeout, keeps every other
\* record unchanged and in place (one idle for exactly session_timeout
\* too), and returns the number of records it removed.
C11_IdleSweepRemovesExactlyTheIdle ==
    [][last'.op = "cleanup_idle_sessions" =>
          /\ Records(sessions') \subseteq Records(sessions)
          /\ \A r \in Records(sessions) :
                (r \in Records(sessions')) <=> (now - r.last_accessed <= session_timeout)
          /\ Len(sessions') = Cardinality(Records(sessions'))
          /\ last'.ret = Len(sessions) - Len(sessions')
          /\ last'.ret = Cardinality(Records(sessions) \ Records(sessions'))]_vars

\* a sweep has removed a record and kept one that is idle for exactly
\* session_timeout
C11_Witness ==
    /\ last.op = "cleanup_idle_sessions"
    /\ last.ret >= 1
    /\ \E r \in Records(sessions) : now - r.last_accessed = session_timeout

\* C12: create_session with a registered key changes nothing in the pool:
\* nothing is evicted, also at capacity, and every record stays as it was.
C12_DuplicateCreateChangesNothing ==
    [][(last'.op = "create_session" /\ HasKey(sessions, last'.key)) =>
          /\ sessions' = sessions
          /\ last'.evicted = "None"
          /\ ~last'.raised]_vars

\* create_session was called for a key registered in a full pool: the
\* record has tasks counted on it, which a record made by the call has not
C12_Witness ==
    /\ last.op = "create_session"
    /\ max_sessions >= 1
    /\ Len(sessions) = max_sessions
    /\ HasKey(sessions, last.key)
    /\ Lookup(sessions, last.key).task_count >= 1

\* C13: get_session(k) of a registered k returns k's record with
\* last_accessed set to the current time; of an unregistered k it returns
\* None; it adds and removes no record and changes no other field and no
\* other record.
C13_GetSessionTouchesOnlyItsRecord ==
    [][last'.op = "get_session" =>
          /\ Len(sessions') = Len(sessions)
          /\ \A i \in 1..Len(sessions) :
                IF sessions[i].id = last'.key
                THEN /\ sessions'[i] = [sessions[i] EXCEPT !.last_accessed = now]
                     /\ last'.ret = sessions'[i]
                ELSE sessions'[i] = sessions[i]
          /\ ~HasKey(sessions, last'.key) => last'.ret = "None"]_vars

\* get_session has returned a record of a pool of two, created earlier
C13_Witness ==
    /\ last.op = "get_session"
    /\ Len(sessions) >= 2
    /\ HasKey(sessions, last.key)
    /\ last.ret.last_accessed = now
    /\ last.ret.created_at < now

\* C14: cleanup_session(k) of a registered k removes k's record and returns
\* True; of an unregistered k it returns False and changes nothing; so a
\* second cleanup_session(k) right after a successful one returns False;
\* no other record is removed.
C14_CleanupSessionRemovesOnlyItsRecord ==
    [][last'.op = "cleanup_session" =>
          /\ last'.ret = HasKey(sessions, last'.key)
          /\ ~HasKey(sessions', last'.key)
          /\ Records(sessions') = {r \in Records(sessions) : r.id # last'.key}
          /\ Len(sessions') = Len(sessions) - (IF HasKey(sessions, last'.key) THEN 1 ELSE 0)
          /\ (last.op = "cleanup_session" /\ last.key = last'.key) => ~last'.ret]_vars

\* cleanup_session has removed its record and left a record of another key
\* registered
C14_Witness ==
    /\ last.op = "cleanup_session"
    /\ last.ret
    /\ Len(sessions) >= 1

\* C18: get_stats returns the number of registered records, the configured
\* max_sessions and the sum of the records' task_count (0 for an empty
\* pool), and changes no record.
C18_StatsCountRecordsAndTasks ==
    [][last'.op = "get_stats" =>
          LET total[i \in 0..Len(sessions)] ==
                  IF i = 0 THEN 0 ELSE total[i - 1] + sessions[i].task_count
          IN /\ last'.ret.active_sessions = Len(sessions)
             /\ last'.ret.max_sessions = max_sessions
             /\ last'.ret.total_tasks = total[Len(sessions)]
             /\ sessions' = sessions]_vars

\* get_stats has reported two sessions with three tasks between them
C18_Witness ==
    /\ last.op = "get_stats"
    /\ last.ret.active_sessions = 2
    /\ last.ret.total_tasks = 3

\* C15: create_aipyapp_context returns session_id "nekro_<chat_key>_<user_id>"
\* and workdir "/tmp/aipyapp_<chat_key>", copies chat_key, user_id,
\* platform_type and bot_id, and sets created_by and orchestrator to
\* "nekro-agent"; the result is a function of the input alone.
C15_ContextIsDerivedFromCtx ==
    bridge.fn = "create_aipyapp_context" =>
        /\ bridge.ret.session_id = "nekro_" \o bridge.arg.chat_key \o "_" \o bridge.arg.user_id
        /\ bridge.ret.workdir = "/tmp/aipyapp_" \o bridge.arg.chat_key
        /\ \A k \in {"chat_key", "user_id", "platform_type", "bot_id"} :
              bridge.ret[k] = bridge.arg[k]
        /\ bridge.ret.created_by = "nekro-agent"
        /\ bridge.ret.orchestrator = "nekro-agent"
        /\ \A ctx \in AgentCtxs :
              ctx = bridge.arg => create_aipyapp_context(ctx) = bridge.ret

\* the context of chat "my_chat" and user "user_1" has been derived
C15_Witness ==
    /\ bridge.fn = "create_aipyapp_context"
    /\ bridge.arg.chat_key = "my_chat"
    /\ bridge.arg.user_id = "user_1"
    /\ bridge.ret.workdir = "/tmp/aipyapp_my_chat"
    /\ bridge.ret.session_id = "nekro_my_chat_user_1"

\* the defaults of the six fields
ResultDefaults ==
    [success |-> FALSE, output |-> "", error |-> "None", artifacts |-> << >>,
     execution_time |-> 0, variables |-> EmptyDict]

\* C16: for every input map, the empty one too, format_result_for_nekro
\* returns exactly the six fields; a field the input has is passed through
\* and a field it lacks takes its default (success False, output "", error
\* None, artifacts [], execution_time 0, variables {}).
C16_FormatResultIsTotal ==
    bridge.fn = "format_result_for_nekro" =>
        /\ DOMAIN bridge.ret = ResultFields
        /\ \A k \in ResultFields :
              bridge.ret[k] = IF k \in DOMAIN bridge.arg THEN bridge.arg[k]
                              ELSE ResultDefaults[k]

\* a map with nothing but success = True and a field that is none of the
\* six has been formatted
C16_Witness ==
    /\ bridge.fn = "format_result_for_nekro"
    /\ DOMAIN bridge.arg = {"success", "stdout"}
    /\ bridge.arg.success
    /\ bridge.ret.success
    /\ bridge.ret.output = ""

\* the suggestions of the five recognized exception types
Documented ==
    [SyntaxError |-> "Check Python syntax in the generated code",
     TimeoutError |-> "Task exceeded time limit, consider breaking into smaller tasks",
     MemoryError |-> "Task used too much memory, optimize data processing",
     ModuleNotFoundError |-> "Required Python module not available in sandbox",
     ValueError |-> "Invalid input data, check task parameters"]

\* C17: for every exception map_error returns its type name, its message
\* and a suggestion: the fixed one of its type for the five recognized
\* types, the one fallback for every other type.
C17_MapErrorIsTotal ==
    bridge.fn = "map_error" =>
        /\ DOMAIN bridge.ret = {"error_type", "error_message", "recovery_suggestion"}
        /\ bridge.ret.error_type = bridge.arg.type
        /\ bridge.ret.error_message = bridge.arg.msg
        /\ bridge.ret.recovery_suggestion =
              IF bridge.arg.type \in DOMAIN Documented
              THEN Documented[bridge.arg.type]
              ELSE "Review task requirements and try again"

\* a MemoryError has been mapped to its own suggestion
C17_Witness ==
    /\ bridge.fn = "map_error"
    /\ bridge.arg.type = "MemoryError"
    /\ bridge.ret.recovery_suggestion
          = "Task used too much memory, optimize data processing"

\* C19: once execute_task has got its TaskManager the executor holds one for
\* the session, and a later execute_task for the session takes that one;
\* after the executor's cleanup_session none is held for the session, and an
\* execute_task that follows builds one no call has had before;
\* cleanup_session for a session without a TaskManager changes nothing.
C19_HandleIsKeptUntilCleanup ==
    /\ [](\A c \in CallIds :
             (calls[c].task_manager # 0 /\ ~calls[c].stale) =>
                 /\ SessionId(calls[c].ctx) \in DOMAIN task_managers
                 /\ task_managers[SessionId(calls[c].ctx)] = calls[c].task_manager)
    /\ [][\A c \in CallIds :
             (calls[c].pc = "pending" /\ calls'[c].pc = "waiting") =>
                 LET sid == SessionId(calls[c].ctx) IN
                 IF sid \in DOMAIN task_managers
                 THEN /\ calls'[c].task_manager = task_managers[sid]
                      /\ task_managers' = task_managers
                 ELSE /\ sid \in DOMAIN task_managers'
                      /\ task_managers'[sid] = calls'[c].task_manager
                      /\ \A b \in CallIds : calls[b].task_manager # calls'[c].task_manager
                      /\ \A k \in DOMAIN task_managers :
                            /\ k \in DOMAIN task_managers'
                            /\ task_managers'[k] = task_managers[k]
                            /\ task_managers[k] # calls'[c].task_manager]_vars
    /\ [][\A ctx \in Ctxs :
             ExecCleanup(ctx) =>
                 LET sid == SessionId(ctx) IN
                 /\ sid \notin DOMAIN task_managers'
                 /\ \A k \in DOMAIN task_managers \ {sid} :
                       k \in DOMAIN task_managers' /\ task_managers'[k] = task_managers[k]
                 /\ sid \notin DOMAIN task_managers =>
                       UNCHANGED <<task_managers, next_handle, calls>>]_vars

\* a session's TaskManager was dropped by cleanup_session and the next
\* execute_task for the session runs on a second one, which the executor
\* holds
C19_Witness ==
    \E b, c \in CallIds :
        /\ SessionId(calls[b].ctx) = SessionId(calls[c].ctx)
        /\ calls[b].stale /\ calls[b].task_manager = 1
        /\ ~calls[c].stale /\ calls[c].task_manager = 2
        /\ calls[c].pc = "waiting"
        /\ task_managers[SessionId(calls[c].ctx)] = 2

\* C20: execute_task gets its session from the pool, so that after any
\* execute_task calls for any sessions the executor holds no more
\* TaskManagers than the pool's max_sessions (here for max_sessions >= 1).
C20_HandlesWithinCapacity ==
    max_sessions >= 1 => Cardinality(DOMAIN task_managers) <= max_sessions

\* C22: the clock never going back, a record's last_accessed is never
\* earlier than its created_at and never decreases for as long as the
\* record is registered, whatever create_session and get_session calls
\* touch it.
C22_LastAccessedNeverGoesBack ==
    /\ [](\A r \in Records(sessions) : r.created_at <= r.last_accessed)
    /\ [][\A r \in Records(sessions), q \in Records(sessions') :
             r.id = q.id => r.last_accessed <= q.last_accessed]_vars

\* get_session has moved the last_accessed of a record past the value
\* create_session gave it
C22_Witness ==
    /\ last.op = "get_session"
    /\ HasKey(sessions, last.key)
    /\ Lookup(sessions, last.key).last_accessed = now
    /\ Lookup(sessions, last.key).created_at < now

\* C26: when creating the workdir fails, create_session raises, the key is
\* not registered and the registry is as it was before the call: no record
\* has been evicted, also in a full pool (here for max_sessions >= 1).
C26_FailedCreateChangesNothing ==
    [][(max_sessions >= 1 /\ last'.op = "create_session" /\ last'.raised) =>
          /\ sessions' = sessions
          /\ ~HasKey(sessions', last'.key)]_vars

\* C27: a record starts with task_count 0 and no TaskManager, and every
\* get_session of it raises its task_count as well as its last_accessed.
C27_AccessCountsATask ==
    /\ [][\A q \in Records(sessions') :
             ~HasKey(sessions, q.id) => q.task_count = 0 /\ q.task_manager = "None"]_vars
    /\ [][(last'.op = "get_session" /\ HasKey(sessions, last'.key)) =>
             /\ last'.ret.last_accessed = now
             /\ last'.ret.task_count = Lookup(sessions, last'.key).task_count + 1]_vars

\* C28: different (chat_key, user_id) pairs get different sessions: the
\* session_id of create_aipyapp_context and the key of the executor's
\* TaskManagers differ, and so do the TaskManagers, also with underscores in
\* chat_key or user_id.
C28_SessionKeyIsInjective ==
    \A c1, c2 \in CallIds :
        ( /\ calls[c1].task_manager # 0
          /\ calls[c2].task_manager # 0
          /\ <<calls[c1].ctx.chat_key, calls[c1].ctx.user_id>>
                # <<calls[c2].ctx.chat_key, calls[c2].ctx.user_id>> )
        => /\ create_aipyapp_context(calls[c1].ctx).session_id
                # create_aipyapp_context(calls[c2].ctx).session_id
           /\ SessionId(calls[c1].ctx) # SessionId(calls[c2].ctx)
           /\ calls[c1].task_manager # calls[c2].task_manager

\* C30: a call ends in one of Completed, Failed and TimedOut, and the
\* caller tells TimedOut from Failed by the type of the error raised: a
\* call that timed out and a call that failed otherwise raise errors of
\* different types.
C30_TimedOutDiffersFromFailedByType ==
    \A c1, c2 \in CallIds :
        ( /\ calls[c1].pc = "raised" /\ calls[c1].inner = "cancelled"
          /\ calls[c2].pc = "raised" /\ calls[c2].inner # "cancelled" )
        => calls[c1].error.type # calls[c2].error.type

\* the step recorded last
LastStep == wf.steps_results[Len(wf.steps_results)]

\* C24 as stated: every variable the preceding step reported is a key of
\* the context handed to the next step.
C24_VariablesAreContextKeys ==
    (wf.pc = "await" /\ Len(wf.steps_results) >= 1) =>
        \A v \in DOMAIN LastStep.variables : v \in DOMAIN calls[WfCall].context

\* C24: every step of the workflow runs for the caller's session; the
\* first step is handed an empty context, and each later step a context
\* whose one key "variables" holds the variables of the preceding step's
\* result, which is where the context built for the step has them.
C24_VariablesAreThreaded ==
    wf.pc = "await" =>
        /\ calls[WfCall].ctx = WfCtx
        /\ IF Len(wf.steps_results) = 0
           THEN DOMAIN calls[WfCall].context = {}
           ELSE /\ DOMAIN calls[WfCall].context = {"variables"}
                /\ calls[WfCall].context.variables = LastStep.variables
                /\ calls[WfCall].pc = "waiting" =>
                      /\ "variables" \in DOMAIN calls[WfCall].aipyapp_ctx
                      /\ calls[WfCall].aipyapp_ctx.variables = LastStep.variables

\* the second step of a workflow is running with the variable x of the
\* first step under the key "variables" of its context
C24_Witness ==
    /\ wf.pc = "await"
    /\ Len(wf.steps_results) = 1
    /\ "x" \in DOMAIN LastStep.variables
    /\ calls[WfCall].pc = "waiting"
    /\ calls[WfCall].context.variables.x = 1
    /\ calls[WfCall].aipyapp_ctx.variables.x = 1

\* the recorded steps that reported success
Completed(steps) == SelectSeq(steps, LAMBDA st : Get(st, "success", FALSE))

RECURSIVE TotalTime(_)
\* the sum of the steps' execution_time
TotalTime(steps) ==
    IF Len(steps) = 0 THEN 0
    ELSE Get(Head(steps), "execution_time", 0) + TotalTime(Tail(steps))

\* C25: whether the workflow ran to its end or stopped, what it returns
\* holds the artifacts of the steps completed before, in step order, and the
\* sum of their execution_time (here for a workflow with a completed step
\* that ended after its last step or at a step whose result has success =
\* false).
C25_ResultAggregatesCompletedSteps ==
    ( /\ wf.pc = "done"
      /\ Len(Completed(wf.steps_results)) >= 1
      /\ wf.ret.success \/ FailedSteps(wf.steps_results) # {} ) =>
        /\ "artifacts" \in DOMAIN wf.ret
        /\ wf.ret.artifacts = AllArtifacts(Completed(wf.steps_results))
        /\ "total_time" \in DOMAIN wf.ret
        /\ wf.ret.total_time = TotalTime(Completed(wf.steps_results))

\* C23: the context execute_task builds for a task is the map derived by
\* create_aipyapp_context overlaid with the caller's context: a key of the
\* caller's context has the caller's value, a derived key the caller's
\* context lacks keeps the derived value, no other key is there, and with an
\* empty context the built context is the derived map.
C23_ContextIsDerivedOverlaidByCaller ==
    \A c \in CallIds :
        calls[c].task_manager # 0 =>
            LET derived == create_aipyapp_context(calls[c].ctx)
                extra == calls[c].context
                built == calls[c].aipyapp_ctx
            IN /\ DOMAIN built = DOMAIN derived \cup DOMAIN extra
               /\ \A k \in DOMAIN extra : built[k] = extra[k]
               /\ \A k \in DOMAIN derived \ DOMAIN extra : built[k] = derived[k]
               /\ extra = EmptyDict => built = derived

\* a task runs with a context in which the caller's session_id has replaced
\* the derived one, the caller's variables have been added and the derived
\* chat_key is kept
C23_Witness ==
    \E c \in CallIds :
        /\ calls[c].pc = "waiting"
        /\ calls[c].work = "running"
        /\ DOMAIN calls[c].context = {"workdir", "session_id", "variables"}
        /\ calls[c].aipyapp_ctx.session_id = "nekro_x_y"
        /\ calls[c].aipyapp_ctx.session_id
              # create_aipyapp_context(calls[c].ctx).session_id
        /\ calls[c].aipyapp_ctx.variables = "{x: 1}"
        /\ calls[c].aipyapp_ctx.chat_key = calls[c].ctx.chat_key

\* C29: the session execute_task runs on is given by the chat_key and the
\* user_id of its AgentCtx and by nothing of the context: whatever contexts
\* the callers pass, also ones with a session_id, workdir, chat_key or
\* user_id of their own, a call whose TaskManager has not been dropped runs
\* on the TaskManager held under its AgentCtx's key and on no other key's,
\* so that two such calls with one AgentCtx run on one TaskManager.
C29_SessionIsGivenByAgentCtx ==
    \A c \in CallIds :
        (calls[c].task_manager # 0 /\ ~calls[c].stale) =>
            /\ SessionId(calls[c].ctx) \in DOMAIN task_managers
            /\ \A k \in DOMAIN task_managers :
                  (task_managers[k] = calls[c].task_manager) <=> (k = SessionId(calls[c].ctx))
            /\ \A b \in CallIds :
                  ( /\ calls[b].task_manager # 0 /\ ~calls[b].stale
                    /\ calls[b].ctx = calls[c].ctx )
                  => calls[b].task_manager = calls[c].task_manager

\* two calls with one AgentCtx are in flight on one TaskManager; one passed
\* no context, the other a context naming the chat and the user of another
\* caller
C29_Witness ==
    \E b, c \in CallIds :
        /\ calls[b].pc = "waiting" /\ calls[c].pc = "waiting"
        /\ calls[b].ctx = calls[c].ctx
        /\ calls[b].context = EmptyDict
        /\ "user_id" \in DOMAIN calls[c].context
        /\ calls[c].context.user_id # calls[c].ctx.user_id
        /\ calls[b].task_manager = calls[c].task_manager
        /\ calls[c].task_manager # 0
        /\ task_managers[SessionId(calls[c].ctx)] = calls[c].task_manager

\* the records the step removes from the pool
Removed == {i \in 1..Len(sessions) : ~HasKey(sessions', sessions[i].id)}

\* C21: when a record with an initialized TaskManager leaves the pool, by
\* cleanup_session, by the eviction of create_session or by
\* cleanup_idle_sessions, the call shuts that TaskManager down; nothing is
\* shut down for a record whose TaskManager was never initialized.
C21_RemovalShutsTheHandleDown ==
    [][ max_sessions >= 1 =>
          /\ \A i \in Removed :
                sessions[i].task_manager # "None"
                    => sessions[i].task_manager \in last'.shutdown
          /\ \A h \in last'.shutdown :
                \E i \in Removed : sessions[i].task_manager = h ]_vars

====
